---------------------------- MODULE Spec2Model ----------------------------
(***************************************************************************)
(* A model of src/fragment-tracker.js (CitationTrack Fragment Tracker).    *)
(*                                                                         *)
(* A JavaScript string is a sequence of characters, Chars("abc") =         *)
(* <<"a", "b", "c">>, indexed from 1 where the source counts from 0.  A    *)
(* character outside printable ASCII is a symbol such as "<0x0B>" or       *)
(* "U+160".  The JavaScript value null is the value Null.                  *)
(***************************************************************************)
EXTENDS Naturals, Sequences, FiniteSets, TLC

VARIABLES
    pc,          \* where the script, or the function under study, stands
    input,       \* the environment of the run: what the function reads
    output,      \* what the function under study returned or computed
    dispatched,  \* details of the 'citationtrack:tracked' events dispatched
    lastEvent,   \* window.__lastCitationTrackEvent
    requests     \* the fetch calls issued, each with the state of its promise

vars == <<pc, input, output, dispatched, lastEvent, requests>>

(***************************************************************************)
(* Strings.                                                                *)
(***************************************************************************)
Chars(str) == [i \in 1..Len(str) |-> SubSeq(str, i, i)]

Null == <<"<null>">>

At(s, i) == s[i]

\* !s for a value that is a string or null
Falsy(s) == s = Null \/ s = <<>>

MatchesAt(s, pat, i) ==
    /\ i >= 1
    /\ i + Len(pat) - 1 <= Len(s)
    /\ SubSeq(s, i, i + Len(pat) - 1) = pat

SetMin(S) == CHOOSE m \in S : \A n \in S : m <= n

\* String.prototype.indexOf, from position `from`: the 1-based position of
\* the first occurrence, 0 where JavaScript answers -1.
IndexOfFrom(s, pat, from) ==
    LET hits == {i \in from..Len(s) : MatchesAt(s, pat, i)}
    IN  IF hits = {} THEN 0 ELSE SetMin(hits)

IndexOf(s, pat) == IndexOfFrom(s, pat, 1)

Contains(s, pat) == IndexOf(s, pat) # 0

StartsWith(s, pat) == MatchesAt(s, pat, 1)

\* Characters the regular expressions and trim() tell apart.
LineTerminators == {"\n", "\r", "U+8232", "U+8233"}
WhiteSpace == {" ", "\t", "\n", "\f", "\r", "<0x0B>", "U+160", "U+8232", "U+8233"}

Ascii ==
  << "<0x00>", "<0x01>", "<0x02>", "<0x03>", "<0x04>", "<0x05>", "<0x06>", "<0x07>",
     "<0x08>", "\t", "\n", "<0x0B>", "\f", "\r", "<0x0E>", "<0x0F>",
     "<0x10>", "<0x11>", "<0x12>", "<0x13>", "<0x14>", "<0x15>", "<0x16>", "<0x17>",
     "<0x18>", "<0x19>", "<0x1A>", "<0x1B>", "<0x1C>", "<0x1D>", "<0x1E>", "<0x1F>",
     " ", "!", "\"", "#", "$", "%", "&", "'",
     "(", ")", "*", "+", ",", "-", ".", "/",
     "0", "1", "2", "3", "4", "5", "6", "7",
     "8", "9", ":", ";", "<", "=", ">", "?",
     "@", "A", "B", "C", "D", "E", "F", "G",
     "H", "I", "J", "K", "L", "M", "N", "O",
     "P", "Q", "R", "S", "T", "U", "V", "W",
     "X", "Y", "Z", "[", "\\", "]", "^", "_",
     "<0x60>", "a", "b", "c", "d", "e", "f", "g",
     "h", "i", "j", "k", "l", "m", "n", "o",
     "p", "q", "r", "s", "t", "u", "v", "w",
     "x", "y", "z", "{", "|", "}", "~", "<0x7F>" >>

\* String.prototype.trim
RECURSIVE TrimStart(_)
TrimStart(s) ==
    IF s # <<>> /\ At(s, 1) \in WhiteSpace THEN TrimStart(SubSeq(s, 2, Len(s))) ELSE s

RECURSIVE TrimEnd(_)
TrimEnd(s) ==
    IF s # <<>> /\ At(s, Len(s)) \in WhiteSpace
    THEN TrimEnd(SubSeq(s, 1, Len(s) - 1)) ELSE s

Trim(s) == TrimEnd(TrimStart(s))

\* Array.prototype.join
RECURSIVE Join(_, _)
Join(parts, sep) ==
    IF Len(parts) = 0 THEN <<>>
    ELSE IF Len(parts) = 1 THEN parts[1]
    ELSE parts[1] \o sep \o Join(Tail(parts), sep)

(***************************************************************************)
(* decodeURIComponent (called at fragment-tracker.js:139).  A "%" must be  *)
(* followed by two hexadecimal digits; an octet of 0x80 or more must start *)
(* a well-formed UTF-8 sequence of "%XX" octets.  Anything else throws     *)
(* URIError, which is the value URIError here.                             *)
(***************************************************************************)
URIError == <<"<URIError>">>

HexUpper == Chars("0123456789ABCDEF")
HexLower == Chars("0123456789abcdef")

IsHex(c) == \E i \in 1..16 : HexUpper[i] = c \/ HexLower[i] = c

HexValue(c) == (CHOOSE i \in 1..16 : HexUpper[i] = c \/ HexLower[i] = c) - 1

NoOctet == 256

\* The octet written "%XY" at position k of s, NoOctet when there is none.
OctetAt(s, k) ==
    IF k + 2 <= Len(s) /\ s[k] = "%" /\ IsHex(s[k + 1]) /\ IsHex(s[k + 2])
    THEN 16 * HexValue(s[k + 1]) + HexValue(s[k + 2])
    ELSE NoOctet

\* The length of the UTF-8 sequence a leading octet announces, 0 for none.
Utf8Length(B) ==
    IF B >= 192 /\ B <= 223 THEN 2
    ELSE IF B >= 224 /\ B <= 239 THEN 3
    ELSE IF B >= 240 /\ B <= 247 THEN 4
    ELSE 0

IsContinuation(B) == B >= 128 /\ B <= 191

Utf8CodePoint(s, k, n) ==
    LET B  == OctetAt(s, k)
        c1 == OctetAt(s, k + 3) - 128
        c2 == OctetAt(s, k + 6) - 128
        c3 == OctetAt(s, k + 9) - 128
    IN  IF n = 2 THEN (B - 192) * 64 + c1
        ELSE IF n = 3 THEN (B - 224) * 4096 + c1 * 64 + c2
        ELSE (B - 240) * 262144 + c1 * 4096 + c2 * 64 + c3

Utf8Valid(V, n) ==
    /\ V >= (IF n = 2 THEN 128 ELSE IF n = 3 THEN 2048 ELSE 65536)
    /\ V <= 1114111
    /\ ~(V >= 55296 /\ V <= 57343)

\* The UTF-16 code units of code point V, each a symbol "U+<number>".
Utf16(V) ==
    IF V < 65536 THEN <<"U+" \o ToString(V)>>
    ELSE << "U+" \o ToString(55296 + ((V - 65536) \div 1024)),
            "U+" \o ToString(56320 + ((V - 65536) % 1024)) >>

ThenDecoded(head, rest) == IF rest = URIError THEN URIError ELSE head \o rest

RECURSIVE DecodeFrom(_, _)
DecodeFrom(s, k) ==
    IF k > Len(s) THEN <<>>
    ELSE IF s[k] # "%" THEN ThenDecoded(<<s[k]>>, DecodeFrom(s, k + 1))
    ELSE LET B == OctetAt(s, k)
             n == Utf8Length(B)
         IN  IF B = NoOctet THEN URIError
             ELSE IF B < 128 THEN ThenDecoded(<<Ascii[B + 1]>>, DecodeFrom(s, k + 3))
             ELSE IF n = 0 THEN URIError
             ELSE IF \E j \in 1..(n - 1) : ~IsContinuation(OctetAt(s, k + 3 * j))
                  THEN URIError
             ELSE IF ~Utf8Valid(Utf8CodePoint(s, k, n), n) THEN URIError
             ELSE ThenDecoded(Utf16(Utf8CodePoint(s, k, n)), DecodeFrom(s, k + 3 * n))

decodeURIComponent(s) == DecodeFrom(s, 1)

(***************************************************************************)
(* getTextFragment, the parser half (fragment-tracker.js:112-196).         *)
(***************************************************************************)
Marker == Chars(":~:text=")
AmpText == Chars("&text=")
Ellipsis == Chars("...")
CommaSpace == Chars(", ")

\* /(?::~:text=|&text=)/ at position i: the length matched, 0 for no match.
IntroLengthAt(hash, i) ==
    IF MatchesAt(hash, Marker, i) THEN Len(Marker)
    ELSE IF MatchesAt(hash, AmpText, i) THEN Len(AmpText)
    ELSE 0

\* The last position of the run [^&]+ that starts at position j.
RunEnd(hash, j) ==
    LET amps == {k \in j..Len(hash) : hash[k] = "&"}
    IN  IF amps = {} THEN Len(hash) ELSE SetMin(amps) - 1

\* The loop of regex.exec over /(?::~:text=|&text=)([^&]+)/g from lastIndex
\* `from`: the captured groups match[1], in order.
RECURSIVE ExecAll(_, _)
ExecAll(hash, from) ==
    LET starts == {i \in from..Len(hash) :
                      /\ IntroLengthAt(hash, i) > 0
                      /\ i + IntroLengthAt(hash, i) <= Len(hash)
                      /\ hash[i + IntroLengthAt(hash, i)] # "&"}
    IN  IF starts = {} THEN <<>>
        ELSE LET i == SetMin(starts)
                 j == i + IntroLengthAt(hash, i)
                 k == RunEnd(hash, j)
             IN  <<SubSeq(hash, j, k)>> \o ExecAll(hash, k + 1)

Dot(c) == c \notin LineTerminators

AllDot(s) == \A i \in 1..Len(s) : Dot(s[i])

NoComma(s) == \A i \in 1..Len(s) : s[i] # ","

\* fragment.match(/^([^,]+?)-,(.+)$/): the length of group 1, 0 for no match.
PrefixMatch(fragment) ==
    LET ns == {n \in 1..Len(fragment) :
                  /\ NoComma(SubSeq(fragment, 1, n))
                  /\ MatchesAt(fragment, Chars("-,"), n + 1)
                  /\ n + 3 <= Len(fragment)
                  /\ AllDot(SubSeq(fragment, n + 3, Len(fragment)))}
    IN  IF ns = {} THEN 0 ELSE SetMin(ns)

\* SuffixMatch changed to never find a suffix.
SuffixMatchNever(fragment) == 0

\* fragment.match(/^(.+?),-([^,]+)$/): the length of group 1, 0 for no match.
SuffixMatch(fragment) ==
    LET ns == {n \in 1..Len(fragment) :
                  /\ AllDot(SubSeq(fragment, 1, n))
                  /\ MatchesAt(fragment, Chars(",-"), n + 1)
                  /\ n + 3 <= Len(fragment)
                  /\ NoComma(SubSeq(fragment, n + 3, Len(fragment)))}
    IN  IF ns = {} THEN 0 ELSE SetMin(ns)

\* fragment.split(',', 2) for a fragment that holds a comma
SplitComma2(fragment) ==
    LET c1   == IndexOf(fragment, <<",">>)
        rest == SubSeq(fragment, c1 + 1, Len(fragment))
        c2   == IndexOf(rest, <<",">>)
    IN  << SubSeq(fragment, 1, c1 - 1),
           IF c2 = 0 THEN rest ELSE SubSeq(rest, 1, c2 - 1) >>

\* ParseRange changed to report only the start text of a range.
ParseRangeStartOnly(fragment) ==
    LET commaIndex == IndexOf(fragment, <<",">>)
        parts      == SplitComma2(fragment)
        whole      == [textStart |-> Trim(fragment), textEnd |-> Null]
    IN  IF commaIndex # 0 /\ commaIndex < Len(fragment)
             /\ Len(parts[2]) > 0 /\ ~StartsWith(parts[2], <<"-">>)
        THEN [textStart |-> Trim(parts[1]), textEnd |-> Null]
        ELSE whole

\* Lines 162-180 on what prefix and suffix stripping left.
ParseRange(fragment) ==
    LET commaIndex == IndexOf(fragment, <<",">>)
        parts      == SplitComma2(fragment)
        whole      == [textStart |-> Trim(fragment), textEnd |-> Null]
    IN  IF commaIndex # 0 /\ commaIndex < Len(fragment)
        THEN IF Len(parts) = 2 /\ Len(parts[2]) > 0
             THEN IF ~StartsWith(parts[2], <<"-">>)
                  THEN [textStart |-> Trim(parts[1]), textEnd |-> Trim(parts[2])]
                  ELSE whole
             ELSE whole
        ELSE whole

\* One pass of the loop at lines 138-191 on a decoded fragment.
ParseFragment(decoded) ==
    LET p          == PrefixMatch(decoded)
        prefix     == IF p = 0 THEN Null ELSE SubSeq(decoded, 1, p)
        afterPre   == IF p = 0 THEN decoded ELSE SubSeq(decoded, p + 3, Len(decoded))
        q          == SuffixMatch(afterPre)
        suffix     == IF q = 0 THEN Null ELSE SubSeq(afterPre, q + 3, Len(afterPre))
        afterSuf   == IF q = 0 THEN afterPre ELSE SubSeq(afterPre, 1, q)
        range      == ParseRange(afterSuf)
    IN  [ prefix        |-> prefix,
          textStart     |-> range.textStart,
          textEnd       |-> range.textEnd,
          suffix        |-> suffix,
          finalFragment |-> IF ~Falsy(range.textEnd)
                            THEN range.textStart \o Ellipsis \o range.textEnd
                            ELSE range.textStart ]

\* The fragments decoded as the loop at line 138 decodes them.
DecodeAll(fragments) == [i \in 1..Len(fragments) |-> decodeURIComponent(fragments[i])]

\* decodeURIComponent threw in some pass: control leaves the loop for the
\* catch at line 198.
Threw(fragments) == \E i \in 1..Len(fragments) : DecodeAll(fragments)[i] = URIError

\* parsedFragments (as records) after a loop in which nothing threw
ParsedFragments(fragments) ==
    [i \in 1..Len(fragments) |-> ParseFragment(DecodeAll(fragments)[i])]

FinalFragments(parsed) == [i \in 1..Len(parsed) |-> parsed[i].finalFragment]

\* Lines 112-201 for a hash that passed the check at line 107.
ParseHash(hash) ==
    LET fragments == ExecAll(hash, 1)
        combined  == Join(FinalFragments(ParsedFragments(fragments)), CommaSpace)
    IN  IF fragments = <<>> THEN Null            \* line 124
        ELSE IF Threw(fragments) THEN Null       \* the catch at line 198
        ELSE IF Falsy(combined) THEN Null ELSE combined   \* line 196

(***************************************************************************)
(* getTextFragment, the locator half (fragment-tracker.js:63-110).  The    *)
(* window w gives: navigation, what performance.getEntries() and the       *)
(* URL constructor do ("throws", "none": no navigation entry,              *)
(* "unparseable": new URL(name) throws, "ok"); navigationHash, the hash    *)
(* of the entry's URL; locationHash, window.location.hash; preserved,      *)
(* window.__preservedTextFragment (Null when unset).                       *)
(***************************************************************************)
Qualifies(hash) == ~Falsy(hash) /\ Contains(hash, Marker)

\* lines 67-91
NavigationHash(w) == IF w.navigation = "ok" THEN w.navigationHash ELSE Null

\* getTextFragment with the two fallback sources tried in the other order.
LocateHashPreservedFirst(w) ==
    LET fromNavigation == NavigationHash(w)
    IN  IF ~Qualifies(fromNavigation)
        THEN IF ~Falsy(w.preserved) THEN w.preserved ELSE w.locationHash
        ELSE fromNavigation

\* lines 93-104: the value of `hash` at line 107
LocateHash(w) ==
    LET fromNavigation == NavigationHash(w)
    IN  IF ~Qualifies(fromNavigation)
        THEN IF ~Qualifies(w.locationHash) /\ ~Falsy(w.preserved)
             THEN w.preserved
             ELSE w.locationHash
        ELSE fromNavigation

getTextFragment(w) ==
    IF ~Qualifies(LocateHash(w)) THEN Null       \* line 107
    ELSE ParseHash(LocateHash(w))

(***************************************************************************)
(* Inputs.  A raw string is written as a short list of tokens, each a      *)
(* piece of text; the functions read the characters of their               *)
(* concatenation.                                                          *)
(***************************************************************************)
RECURSIVE Flatten(_)
Flatten(tokens) ==
    IF tokens = <<>> THEN <<>> ELSE Chars(Head(tokens)) \o Flatten(Tail(tokens))

TokenLists(alphabet, maxLen) == UNION {[1..n -> alphabet] : n \in 0..maxLen}

NoEffects ==
    /\ dispatched = <<>>
    /\ lastEvent = Null
    /\ requests = <<>>

\* A window in which only window.location.hash holds something.
WindowWithHash(hash) ==
    [ navigation     |-> "none",
      navigationHash |-> Null,
      locationHash   |-> hash,
      preserved      |-> Null ]

(***************************************************************************)
(* SpecValue: getTextFragment on "#:~:text=VALUE", one segment, every      *)
(* VALUE of up to MaxValueTokens tokens.                                   *)
(***************************************************************************)
MaxValueTokens == 5

ValueTokens == {"x", "y", ",", "-", "-,", ",-", "%20", "%0A"}

ValueHash(tokens) == Chars("#:~:text=") \o Flatten(tokens)

InitValue ==
    /\ pc = "ready"
    /\ input \in TokenLists(ValueTokens, MaxValueTokens)
    /\ output = Null
    /\ NoEffects

ParseValue ==
    /\ pc = "ready"
    /\ pc' = "done"
    /\ output' = getTextFragment(WindowWithHash(ValueHash(input)))
    /\ UNCHANGED <<input, dispatched, lastEvent, requests>>

NextValue == ParseValue

SpecValue == InitValue /\ [][NextValue]_vars

\* The decoded VALUE of a state of SpecValue.
Value == decodeURIComponent(Flatten(input))

Commas(s) == {i \in 1..Len(s) : s[i] = ","}

Before(s, i) == SubSeq(s, 1, i - 1)

After(s, i) == SubSeq(s, i + 1, Len(s))

Padded(s) == s # <<>> /\ (s[1] \in WhiteSpace \/ s[Len(s)] \in WhiteSpace)

EndsWithDash(s) == s # <<>> /\ s[Len(s)] = "-"

StartsWithDash(s) == s # <<>> /\ s[1] = "-"

\* d is 'S,E' as C2 describes it; S and E are RangeStart(d) and RangeEnd(d).
RangeStart(d) == Before(d, SetMin(Commas(d)))

RangeEnd(d) == After(d, SetMin(Commas(d)))

IsRangeValue(d) ==
    /\ Cardinality(Commas(d)) = 1
    /\ RangeStart(d) # <<>> /\ RangeEnd(d) # <<>>
    /\ ~Padded(RangeStart(d)) /\ ~Padded(RangeEnd(d))
    /\ ~EndsWithDash(RangeStart(d))
    /\ ~StartsWithDash(RangeEnd(d))

\* C2: for every fragment value 'S,E' with S and E non-empty, comma-free,
\* without leading or trailing whitespace, S not ending with '-' and E not
\* starting with '-', the display string is S followed by '...' and E.
C2_RangeDisplay ==
    (pc = "done" /\ IsRangeValue(Value))
        => output = RangeStart(Value) \o Ellipsis \o RangeEnd(Value)

\* C2 witness: a range whose two texts differ, the first with inner
\* whitespace, has been parsed.
C2_Witness ==
    /\ pc = "done"
    /\ IsRangeValue(Value)
    /\ Value = Chars("x y,y")
    /\ output = Chars("x y...y")

\* The ways to read d as 'P-,T', 'T,-S' or 'P-,T,-S' with P, T and S
\* non-empty and comma-free: each a record of the form and its parts.
SetMax(S) == CHOOSE m \in S : \A n \in S : m >= n

ContextForms(d) ==
    LET c1 == SetMin(Commas(d))
        c2 == SetMax(Commas(d))
    IN  (IF /\ Cardinality(Commas(d)) = 1
            /\ c1 >= 3 /\ d[c1 - 1] = "-"
            /\ c1 < Len(d)
         THEN {[form |-> "P-,T", P |-> SubSeq(d, 1, c1 - 2), T |-> After(d, c1),
                S |-> <<>>]}
         ELSE {})
        \cup
        (IF /\ Cardinality(Commas(d)) = 1
            /\ c1 >= 2 /\ c1 + 2 <= Len(d)
            /\ d[c1 + 1] = "-"
         THEN {[form |-> "T,-S", P |-> <<>>, T |-> Before(d, c1),
                S |-> SubSeq(d, c1 + 2, Len(d))]}
         ELSE {})
        \cup
        (IF /\ Cardinality(Commas(d)) = 2
            /\ c1 >= 3 /\ d[c1 - 1] = "-"
            /\ c2 > c1 + 1 /\ c2 + 2 <= Len(d)
            /\ d[c2 + 1] = "-"
         THEN {[form |-> "P-,T,-S", P |-> SubSeq(d, 1, c1 - 2),
                T |-> SubSeq(d, c1 + 1, c2 - 1), S |-> SubSeq(d, c2 + 2, Len(d))]}
         ELSE {})

\* The side conditions the code needs: no line break in P, T or S, no
\* whitespace around T and, read as 'T,-S', no '-' ending T.
PlainContext(f) ==
    /\ AllDot(f.P) /\ AllDot(f.T) /\ AllDot(f.S)
    /\ ~Padded(f.T)
    /\ (f.form = "T,-S" => ~EndsWithDash(f.T))

\* C3 as claimed: for every fragment value of the form 'P-,T', 'T,-S' or
\* 'P-,T,-S' with P, T and S non-empty and comma-free, the display string is
\* exactly T.
C3_AsClaimed ==
    pc = "done" => \A f \in ContextForms(Value) : output = f.T

\* C3 amended: for every fragment value of the form 'P-,T', 'T,-S' or
\* 'P-,T,-S' with P, T and S non-empty, comma-free and free of line breaks,
\* T without leading or trailing whitespace and, in the form 'T,-S', T not
\* ending with '-', the display string is exactly T.
C3_ContextStripped ==
    pc = "done" =>
        \A f \in ContextForms(Value) : PlainContext(f) => output = f.T

\* C3 witness: a value with both a prefix and a suffix has been parsed down
\* to the text between them.
C3_Witness ==
    /\ pc = "done"
    /\ Value = Chars("x-,y,-x")
    /\ \E f \in ContextForms(Value) : f.form = "P-,T,-S" /\ PlainContext(f) /\ f.T = <<"y">>
    /\ output = <<"y">>

(***************************************************************************)
(* SpecHash: getTextFragment on "#" followed by up to MaxHashTokens        *)
(* tokens, among them the two introducers, "&" and a lone "%".             *)
(***************************************************************************)
MaxHashTokens == 5

HashTokens == {":~:text=", "&text=", "&", "x", "y", ",", "%20", "%"}

TokenHash(tokens) == Chars("#") \o Flatten(tokens)

InitHash ==
    /\ pc = "ready"
    /\ input \in TokenLists(HashTokens, MaxHashTokens)
    /\ output = Null
    /\ NoEffects

ParseTokens ==
    /\ pc = "ready"
    /\ pc' = "done"
    /\ output' = getTextFragment(WindowWithHash(TokenHash(input)))
    /\ UNCHANGED <<input, dispatched, lastEvent, requests>>

NextHash == ParseTokens

SpecHash == InitHash /\ [][NextHash]_vars

\* The segments of a token list, read off the tokens: an introducer, then
\* the tokens up to the next one that starts with "&" (at least one).
Introducers == {":~:text=", "&text="}

Ampersands == {"&", "&text="}

RECURSIVE SegmentsFrom(_, _)
SegmentsFrom(tokens, i) ==
    IF i > Len(tokens) THEN <<>>
    ELSE IF tokens[i] \in Introducers /\ i < Len(tokens) /\ tokens[i + 1] \notin Ampersands
    THEN LET stops == {k \in (i + 1)..Len(tokens) : tokens[k] \in Ampersands}
             last  == IF stops = {} THEN Len(tokens) ELSE SetMin(stops) - 1
         IN  <<Flatten(SubSeq(tokens, i + 1, last))>> \o SegmentsFrom(tokens, last + 1)
    ELSE SegmentsFrom(tokens, i + 1)

Segments == SegmentsFrom(input, 1)

WellFormed(segment) == decodeURIComponent(segment) # URIError

DisplayString(segment) == ParseFragment(decodeURIComponent(segment)).finalFragment

RECURSIVE Displays(_)
Displays(segments) ==
    IF segments = <<>> THEN <<>>
    ELSE IF WellFormed(Head(segments))
    THEN <<DisplayString(Head(segments))>> \o Displays(Tail(segments))
    ELSE Displays(Tail(segments))

\* A result read as a string: null is what line 196 makes of "".
AsString(result) == IF result = Null THEN <<>> ELSE result

\* C4 as claimed: for a qualifying hash with n >= 1 segments, the result is
\* the display strings of the segments joined with ', ' in the order of the
\* segments (a segment that does not decode has no display string and, by
\* spec section 7, is skipped).
C4_AsClaimed ==
    (pc = "done" /\ Contains(TokenHash(input), Marker) /\ Len(Segments) >= 1)
        => AsString(output) = Join(Displays(Segments), CommaSpace)

\* The part of C4 the code keeps: when every segment decodes, the result is
\* the display strings joined with ', ' in the order of the segments.
JoinedInOrder ==
    (/\ pc = "done"
     /\ Contains(TokenHash(input), Marker)
     /\ Len(Segments) >= 1
     /\ \A i \in 1..Len(Segments) : WellFormed(Segments[i]))
        => AsString(output) = Join(Displays(Segments), CommaSpace)

\* Several segments, all decoding, have been joined in order.
JoinedInOrderWitness ==
    /\ pc = "done"
    /\ input = <<":~:text=", "y", "&text=", "x">>
    /\ output = Chars("y, x")

\* The records of the segments whose textStart is not empty.
RECURSIVE NonEmptyTexts(_)
NonEmptyTexts(segments) ==
    IF segments = <<>> THEN <<>>
    ELSE LET parsed == ParseFragment(decodeURIComponent(Head(segments)))
         IN  IF parsed.textStart # <<>>
             THEN <<parsed.finalFragment>> \o NonEmptyTexts(Tail(segments))
             ELSE NonEmptyTexts(Tail(segments))

\* C5 as claimed: every parsed fragment that contributes to the result has a
\* non-empty textStart; a segment whose decoded value yields empty text
\* contributes nothing to the joined result, and the result is null when
\* every segment is empty.
C5_AsClaimed ==
    (/\ pc = "done"
     /\ Contains(TokenHash(input), Marker)
     /\ \A i \in 1..Len(Segments) : WellFormed(Segments[i]))
        => /\ output # Null =>
                \A i \in 1..Len(Segments) :
                    ParseFragment(decodeURIComponent(Segments[i])).textStart # <<>>
           /\ AsString(output) = Join(NonEmptyTexts(Segments), CommaSpace)

(***************************************************************************)
(* detectTrafficSource (fragment-tracker.js:221-268).  A classification    *)
(* is a record of two names; the ai of a source that is no AI system is    *)
(* NoAi (null in the source).                                              *)
(***************************************************************************)
UpperAlpha == Chars("ABCDEFGHIJKLMNOPQRSTUVWXYZ")
LowerAlpha == Chars("abcdefghijklmnopqrstuvwxyz")

LowerChar(c) ==
    IF \E i \in 1..26 : UpperAlpha[i] = c
    THEN LowerAlpha[CHOOSE i \in 1..26 : UpperAlpha[i] = c]
    ELSE c

toLowerCase(s) == [i \in 1..Len(s) |-> LowerChar(s[i])]

NoAi == "null"

Classified(source, ai) == [source |-> source, ai |-> ai]

\* ref.indexOf(str) !== -1
Has(ref, str) == Contains(ref, Chars(str))

\* detectTrafficSource with the search engines tested before the AI rules
\* that ask for a second keyword.
detectTrafficSourceSearchFirst(referrer) ==
    LET ref == toLowerCase(referrer)
    IN  IF Falsy(referrer) THEN Classified("Direct", NoAi)
        ELSE IF Has(ref, "perplexity") THEN Classified("AI", "Perplexity")
        ELSE IF Has(ref, "chatgpt.com") \/ Has(ref, "openai.com")
             THEN Classified("AI", "ChatGPT")
        ELSE IF Has(ref, "claude.ai") \/ Has(ref, "anthropic.com")
             THEN Classified("AI", "Claude")
        ELSE IF \/ Has(ref, "google.com/search") \/ Has(ref, "bing.com/search")
                \/ Has(ref, "yahoo.com") \/ Has(ref, "yandex.com")
             THEN Classified("Search", NoAi)
        ELSE IF Has(ref, "google.com") /\ (Has(ref, "ai") \/ Has(ref, "overview"))
             THEN Classified("AI", "Google AI Overview")
        ELSE IF Has(ref, "brave.com") /\ Has(ref, "ai")
             THEN Classified("AI", "Brave AI")
        ELSE IF Has(ref, "microsoft.com") /\ Has(ref, "copilot")
             THEN Classified("AI", "Microsoft Copilot")
        ELSE IF Has(ref, "duckduckgo.com") /\ Has(ref, "ai")
             THEN Classified("AI", "DuckDuckGo AI")
        ELSE IF \/ Has(ref, "facebook.com") \/ Has(ref, "twitter.com")
                \/ Has(ref, "x.com") \/ Has(ref, "linkedin.com")
                \/ Has(ref, "reddit.com") \/ Has(ref, "instagram.com")
                \/ Has(ref, "tiktok.com") \/ Has(ref, "pinterest.com")
             THEN Classified("Social", NoAi)
        ELSE Classified("Referral", NoAi)

detectTrafficSource(referrer) ==
    LET ref == toLowerCase(referrer)
    IN  IF Falsy(referrer) THEN Classified("Direct", NoAi)
        ELSE IF Has(ref, "perplexity") THEN Classified("AI", "Perplexity")
        ELSE IF Has(ref, "chatgpt.com") \/ Has(ref, "openai.com")
             THEN Classified("AI", "ChatGPT")
        ELSE IF Has(ref, "claude.ai") \/ Has(ref, "anthropic.com")
             THEN Classified("AI", "Claude")
        ELSE IF Has(ref, "google.com") /\ (Has(ref, "ai") \/ Has(ref, "overview"))
             THEN Classified("AI", "Google AI Overview")
        ELSE IF Has(ref, "brave.com") /\ Has(ref, "ai")
             THEN Classified("AI", "Brave AI")
        ELSE IF Has(ref, "microsoft.com") /\ Has(ref, "copilot")
             THEN Classified("AI", "Microsoft Copilot")
        ELSE IF Has(ref, "duckduckgo.com") /\ Has(ref, "ai")
             THEN Classified("AI", "DuckDuckGo AI")
        ELSE IF \/ Has(ref, "google.com/search") \/ Has(ref, "bing.com/search")
                \/ Has(ref, "yahoo.com") \/ Has(ref, "yandex.com")
             THEN Classified("Search", NoAi)
        ELSE IF \/ Has(ref, "facebook.com") \/ Has(ref, "twitter.com")
                \/ Has(ref, "x.com") \/ Has(ref, "linkedin.com")
                \/ Has(ref, "reddit.com") \/ Has(ref, "instagram.com")
                \/ Has(ref, "tiktok.com") \/ Has(ref, "pinterest.com")
             THEN Classified("Social", NoAi)
        ELSE Classified("Referral", NoAi)

(***************************************************************************)
(* SpecClassify: detectTrafficSource on every referrer of up to            *)
(* MaxReferrerTokens tokens.                                               *)
(***************************************************************************)
MaxReferrerTokens == 2

ReferrerTokens ==
    { "https://", "www.", "example.org/", "mail.", "?q=rain", "/overview", "/Copilot",
      "perplexity.ai", "Perplexity", "ChatGPT.com", "openai.com", "claude.ai",
      "anthropic.com", "google.com", "GOOGLE.COM/Search", "google.com/search",
      "brave.com", "microsoft.com", "duckduckgo.com", "bing.com/search",
      "yahoo.com", "yandex.com", "facebook.com", "twitter.com", "x.com",
      "linkedin.com", "reddit.com", "instagram.com", "tiktok.com", "pinterest.com" }

InitClassify ==
    /\ pc = "ready"
    /\ input \in TokenLists(ReferrerTokens, MaxReferrerTokens)
    /\ output = Null
    /\ NoEffects

Classify ==
    /\ pc = "ready"
    /\ pc' = "done"
    /\ output' = detectTrafficSource(Flatten(input))
    /\ UNCHANGED <<input, dispatched, lastEvent, requests>>

NextClassify == Classify

SpecClassify == InitClassify /\ [][NextClassify]_vars

\* A referrer with the case of its letters folded away, and whether str
\* occurs in a folded referrer.
Folded(referrer) == [i \in 1..Len(referrer) |-> LowerChar(referrer[i])]

HasAnyCase(folded, str) ==
    IndexOf(folded, Chars(str)) # 0

\* The rules of C6 in their priority order: whether rule k applies to a
\* folded referrer r, and the classification rule k gives.
RuleApplies(k, r) ==
    CASE k = 1  -> r = <<>>
      [] k = 2  -> HasAnyCase(r, "perplexity")
      [] k = 3  -> HasAnyCase(r, "chatgpt.com") \/ HasAnyCase(r, "openai.com")
      [] k = 4  -> HasAnyCase(r, "claude.ai") \/ HasAnyCase(r, "anthropic.com")
      [] k = 5  -> HasAnyCase(r, "google.com")
                      /\ (HasAnyCase(r, "ai") \/ HasAnyCase(r, "overview"))
      [] k = 6  -> HasAnyCase(r, "brave.com") /\ HasAnyCase(r, "ai")
      [] k = 7  -> HasAnyCase(r, "microsoft.com") /\ HasAnyCase(r, "copilot")
      [] k = 8  -> HasAnyCase(r, "duckduckgo.com") /\ HasAnyCase(r, "ai")
      [] k = 9  -> \E e \in {"google.com/search", "bing.com/search", "yahoo.com",
                             "yandex.com"} : HasAnyCase(r, e)
      [] k = 10 -> \E e \in {"facebook.com", "twitter.com", "x.com", "linkedin.com",
                             "reddit.com", "instagram.com", "tiktok.com",
                             "pinterest.com"} : HasAnyCase(r, e)
      [] OTHER  -> TRUE

RuleResult(k) ==
    CASE k = 1  -> Classified("Direct", NoAi)
      [] k = 2  -> Classified("AI", "Perplexity")
      [] k = 3  -> Classified("AI", "ChatGPT")
      [] k = 4  -> Classified("AI", "Claude")
      [] k = 5  -> Classified("AI", "Google AI Overview")
      [] k = 6  -> Classified("AI", "Brave AI")
      [] k = 7  -> Classified("AI", "Microsoft Copilot")
      [] k = 8  -> Classified("AI", "DuckDuckGo AI")
      [] k = 9  -> Classified("Search", NoAi)
      [] k = 10 -> Classified("Social", NoAi)
      [] OTHER  -> Classified("Referral", NoAi)

RulesApplying(referrer) ==
    LET r == Folded(referrer) IN {k \in 1..11 : RuleApplies(k, r)}

\* C6: detectTrafficSource always returns a classification, that of the
\* first rule that applies in the order Direct, Perplexity, ChatGPT, Claude,
\* Google AI Overview, Brave AI, Microsoft Copilot, DuckDuckGo AI, Search,
\* Social, Referral, letter case aside; a referrer that meets an AI rule and
\* a Search rule is AI; the AI name is non-null exactly when the source is AI.
C6_FirstMatchingRule ==
    pc = "done" =>
        LET applying == RulesApplying(Flatten(input))
        IN  /\ output = RuleResult(SetMin(applying))
            /\ output.source \in {"AI", "Search", "Social", "Direct", "Referral"}
            /\ (output.ai # NoAi) <=> (output.source = "AI")
            /\ (9 \in applying /\ applying \cap (2..8) # {}) => output.source = "AI"

\* C6 witness: a referrer in mixed case that meets the Google AI rule and
\* the Search rule has been classified AI.
C6_Witness ==
    /\ pc = "done"
    /\ input = <<"GOOGLE.COM/Search", "?q=rain">>
    /\ {5, 9} \subseteq RulesApplying(Flatten(input))
    /\ output = Classified("AI", "Google AI Overview")

(***************************************************************************)
(* sanitizeReferrerUrl (fragment-tracker.js:348-394) with the pieces of    *)
(* the URL and URLSearchParams interfaces it uses.  The URL parser is      *)
(* modelled for the schemes http and https: scheme and host are            *)
(* lower-cased, an empty path becomes "/", the query runs from the first   *)
(* "?" to the first "#".  A string with neither scheme does not parse.     *)
(***************************************************************************)
Redacted == Chars("[REDACTED]")

\* The position of the first character of s that is in set, Len(s) + 1
\* when there is none.
FirstOf(s, set) ==
    LET hits == {i \in 1..Len(s) : s[i] \in set}
    IN  IF hits = {} THEN Len(s) + 1 ELSE SetMin(hits)

SchemeLength(url) ==
    LET start == toLowerCase(SubSeq(url, 1, IF Len(url) < 8 THEN Len(url) ELSE 8))
    IN  IF MatchesAt(start, Chars("https://"), 1) THEN 8
        ELSE IF MatchesAt(start, Chars("http://"), 1) THEN 7
        ELSE 0

UrlHostEnd(url) ==
    LET n == SchemeLength(url)
    IN  n + FirstOf(SubSeq(url, n + 1, Len(url)), {"/", "?", "#"}) - 1

\* new URL(url) does not throw
UrlParses(url) == SchemeLength(url) > 0 /\ UrlHostEnd(url) > SchemeLength(url)

\* new URL(url): the record of the URL's components; query and fragment are
\* Null when the URL has none.
ParseUrl(url) ==
    LET n         == SchemeLength(url)
        h         == UrlHostEnd(url)
        afterHost == SubSeq(url, h + 1, Len(url))
        p         == FirstOf(afterHost, {"?", "#"})
        afterPath == SubSeq(afterHost, p, Len(afterHost))
        f         == FirstOf(afterPath, {"#"})
    IN  [ scheme   |-> toLowerCase(SubSeq(url, 1, n)),
          host     |-> toLowerCase(SubSeq(url, n + 1, h)),
          path     |-> IF p = 1 THEN <<"/">> ELSE SubSeq(afterHost, 1, p - 1),
          query    |-> IF afterPath # <<>> /\ afterPath[1] = "?"
                       THEN SubSeq(afterPath, 2, f - 1) ELSE Null,
          fragment |-> IF f <= Len(afterPath)
                       THEN SubSeq(afterPath, f + 1, Len(afterPath)) ELSE Null ]

\* URL.prototype.toString
UrlToString(u) ==
    u.scheme \o u.host \o u.path
        \o (IF u.query = Null THEN <<>> ELSE <<"?">> \o u.query)
        \o (IF u.fragment = Null THEN <<>> ELSE <<"#">> \o u.fragment)

\* s split at every occurrence of the character c
RECURSIVE SplitOn(_, _)
SplitOn(s, c) ==
    LET i == FirstOf(s, {c})
    IN  IF i > Len(s) THEN <<s>>
        ELSE <<SubSeq(s, 1, i - 1)>> \o SplitOn(SubSeq(s, i + 1, Len(s)), c)

\* Decoding as the application/x-www-form-urlencoded parser does it: "+"
\* is a space, "%XY" an octet, a "%" without two hexadecimal digits stays,
\* and the octets are read as UTF-8, an octet that starts no valid sequence
\* becoming U+FFFD.
Replacement == 65533

RECURSIVE FormDecode(_)
FormDecode(s) ==
    LET B == OctetAt(s, 1)
        n == Utf8Length(B)
    IN  IF s = <<>> THEN <<>>
        ELSE IF s[1] = "+" THEN <<" ">> \o FormDecode(Tail(s))
        ELSE IF B = NoOctet THEN <<s[1]>> \o FormDecode(Tail(s))
        ELSE IF B < 128 THEN <<Ascii[B + 1]>> \o FormDecode(SubSeq(s, 4, Len(s)))
        ELSE IF /\ n # 0
                /\ \A j \in 1..(n - 1) : IsContinuation(OctetAt(s, 1 + 3 * j))
                /\ Utf8Valid(Utf8CodePoint(s, 1, n), n)
             THEN Utf16(Utf8CodePoint(s, 1, n)) \o FormDecode(SubSeq(s, 3 * n + 1, Len(s)))
        ELSE Utf16(Replacement) \o FormDecode(SubSeq(s, 4, Len(s)))

\* The application/x-www-form-urlencoded serializer on one name or value:
\* a space is "+", the characters of FormSafe stay, every other character
\* is the "%XY" of each octet of its UTF-8 encoding.
FormSafe == {UpperAlpha[i] : i \in 1..26} \cup {LowerAlpha[i] : i \in 1..26}
                \cup {HexUpper[i] : i \in 1..10} \cup {"*", "-", ".", "_"}

PercentOctet(B) == <<"%", HexUpper[(B \div 16) + 1], HexUpper[(B % 16) + 1]>>

\* The code points beyond ASCII that strings of the model contain.
CodePoints == {233, Replacement}

CodePointOf(c) ==
    IF \E i \in 1..128 : Ascii[i] = c
    THEN (CHOOSE i \in 1..128 : Ascii[i] = c) - 1
    ELSE CHOOSE V \in CodePoints : Utf16(V) = <<c>>

Utf8Encode(V) ==
    IF V < 128 THEN PercentOctet(V)
    ELSE IF V < 2048 THEN PercentOctet(192 + (V \div 64)) \o PercentOctet(128 + (V % 64))
    ELSE PercentOctet(224 + (V \div 4096)) \o PercentOctet(128 + ((V \div 64) % 64))
             \o PercentOctet(128 + (V % 64))

RECURSIVE FormEncode(_)
FormEncode(s) ==
    IF s = <<>> THEN <<>>
    ELSE (IF s[1] = " " THEN <<"+">>
          ELSE IF s[1] \in FormSafe THEN <<s[1]>>
          ELSE Utf8Encode(CodePointOf(s[1])))
         \o FormEncode(Tail(s))

\* One piece "name=value" of a query as a pair.
ParsePair(piece) ==
    LET eq == FirstOf(piece, {"="})
    IN  [ name  |-> FormDecode(SubSeq(piece, 1, eq - 1)),
          value |-> FormDecode(SubSeq(piece, eq + 1, Len(piece))) ]

\* url.searchParams: the pairs of a query, in order; empty pieces are skipped.
RECURSIVE ParsePieces(_)
ParsePieces(pieces) ==
    IF pieces = <<>> THEN <<>>
    ELSE IF Head(pieces) = <<>> THEN ParsePieces(Tail(pieces))
    ELSE <<ParsePair(Head(pieces))>> \o ParsePieces(Tail(pieces))

SearchParams(query) == IF query = Null THEN <<>> ELSE ParsePieces(SplitOn(query, "&"))

SerializePairs(pairs) ==
    Join([i \in 1..Len(pairs) |-> FormEncode(pairs[i].name) \o <<"=">>
                                      \o FormEncode(pairs[i].value)], <<"&">>)

\* lines 371-379
sensitiveParams ==
    << "token", "session", "sessionid", "session_id",
       "key", "api_key", "apikey", "access_key",
       "auth", "authorization", "auth_token",
       "secret", "password", "pwd", "passwd",
       "id", "user_id", "uid", "userid",
       "csrf", "csrf_token", "csrf-token",
       "oauth_token", "oauth_secret" >>

\* sanitizeReferrerUrl with one listed name, "id", left out of the loop.
DeletedNamesWithoutId == {Chars(sensitiveParams[i]) : i \in 1..Len(sensitiveParams)} \ {Chars("id")}

\* The names lines 382-384 delete: the whole list.
DeletedNames == {Chars(sensitiveParams[i]) : i \in 1..Len(sensitiveParams)}

\* lines 382-384: searchParams.delete(param) for each listed name, and the
\* update of the URL's query that every delete performs.
DeleteSensitive(u) ==
    LET kept == SelectSeq(SearchParams(u.query), LAMBDA pair : pair.name \notin DeletedNames)
    IN  [u EXCEPT !.query = IF kept = <<>> THEN Null ELSE SerializePairs(kept)]

\* /[?&](token|session|key|auth|api_key|secret|password)=[^&\s]+/gi at
\* position i of url: the position of "=", 0 for no match.  The names are
\* tried in the order of the alternation.
FallbackNames == <<"token", "session", "key", "auth", "api_key", "secret", "password">>

FallbackEqualsAt(url, i) ==
    LET low  == toLowerCase(url)
        fits == {k \in 1..Len(FallbackNames) :
                    /\ url[i] \in {"?", "&"}
                    /\ MatchesAt(low, Chars(FallbackNames[k]) \o <<"=">>, i + 1)
                    /\ i + Len(FallbackNames[k]) + 2 <= Len(url)
                    /\ url[i + Len(FallbackNames[k]) + 2] \notin (WhiteSpace \cup {"&"})}
    IN  IF fits = {} THEN 0 ELSE i + Len(FallbackNames[SetMin(fits)]) + 1

\* url.replace(that pattern, match => match.split('=')[0] + '=[REDACTED]'),
\* from position `from` on.
RECURSIVE FallbackReplace(_, _)
FallbackReplace(url, from) ==
    LET starts == {i \in from..Len(url) : FallbackEqualsAt(url, i) # 0}
    IN  IF starts = {} THEN SubSeq(url, from, Len(url))
        ELSE LET i   == SetMin(starts)
                 eq  == FallbackEqualsAt(url, i)
                 end == eq + FirstOf(SubSeq(url, eq + 1, Len(url)), WhiteSpace \cup {"&"}) - 1
             IN  SubSeq(url, from, eq) \o Redacted \o FallbackReplace(url, end + 1)

sanitizeReferrerUrl(url) ==
    IF Falsy(url) THEN url                                         \* line 349
    ELSE IF ~Contains(url, <<"?">>) /\ ~Contains(url, <<"&">>) THEN url   \* line 355
    ELSE IF ~UrlParses(url) THEN FallbackReplace(url, 1)           \* lines 363-367
    ELSE UrlToString(DeleteSensitive(ParseUrl(url)))               \* lines 371-386

(***************************************************************************)
(* SpecUrl: sanitizeReferrerUrl on a referrer made of a base and up to     *)
(* MaxUrlTokens tokens.  Two bases parse as URLs, one does not.            *)
(***************************************************************************)
MaxUrlTokens == 4

UrlBases == {"https://a.com/p", "HTTPS://A.com", "a.com/p"}

UrlTokens == {"?", "&", "#", "token=X", "q=1", "id=7", "%74oken=a+b", "Key=%C3%A9%zz"}

ReferrerUrl(in) == Chars(in.base) \o Flatten(in.tokens)

InitUrl ==
    /\ pc = "ready"
    /\ input \in [base : UrlBases, tokens : TokenLists(UrlTokens, MaxUrlTokens)]
    /\ output = Null
    /\ NoEffects

SanitizeUrl ==
    /\ pc = "ready"
    /\ pc' = "done"
    /\ output' = sanitizeReferrerUrl(ReferrerUrl(input))
    /\ UNCHANGED <<input, dispatched, lastEvent, requests>>

NextUrl == SanitizeUrl

SpecUrl == InitUrl /\ [][NextUrl]_vars

\* The names the claim lists.
C8_Listed ==
    { Chars(n) : n \in
        { "token", "session", "sessionid", "session_id", "key", "api_key", "apikey",
          "access_key", "auth", "authorization", "auth_token", "secret", "password",
          "pwd", "passwd", "id", "user_id", "uid", "userid", "csrf", "csrf_token",
          "csrf-token", "oauth_token", "oauth_secret" } }

Unlisted(pairs) == SelectSeq(pairs, LAMBDA pair : pair.name \notin C8_Listed)

\* C8: for a referrer that parses as a URL, the output parses as a URL, has
\* no query parameter with a listed name, has the scheme, host and path of
\* the input, and its query parameters are exactly the unlisted parameters
\* of the input, with their values, in the input's order.
C8_ListedRemovedRestKept ==
    (pc = "done" /\ UrlParses(ReferrerUrl(input))) =>
        LET before == ParseUrl(ReferrerUrl(input))
            after  == ParseUrl(output)
            params == SearchParams(after.query)
        IN  /\ UrlParses(output)
            /\ \A i \in 1..Len(params) : params[i].name \notin C8_Listed
            /\ after.scheme = before.scheme
            /\ after.host = before.host
            /\ after.path = before.path
            /\ params = Unlisted(SearchParams(before.query))

\* C8 witness: "https://a.com/p?token=X&q=1" comes out as
\* "https://a.com/p?q=1".
C8_Witness ==
    /\ pc = "done"
    /\ input = [base |-> "https://a.com/p", tokens |-> <<"?", "token=X", "&", "q=1">>]
    /\ output = Chars("https://a.com/p?q=1")

\* sanitizeReferrerUrl applied to its own output changes nothing.
ReferrerIdempotent == pc = "done" => sanitizeReferrerUrl(output) = output

(***************************************************************************)
(* sanitizeFragmentText (fragment-tracker.js:289-322): eleven              *)
(* String.prototype.replace calls with global regular expressions, in the  *)
(* order of the source.  Each pattern is modelled by the end of its match  *)
(* at a given start position, as the backtracking matcher finds it.        *)
(***************************************************************************)
Digits == {HexUpper[i] : i \in 1..10}

\* \w
WordChars == {UpperAlpha[i] : i \in 1..26} \cup {LowerAlpha[i] : i \in 1..26}
                 \cup Digits \cup {"_"}

\* [a-zA-Z0-9_-]
TokenChars == WordChars \cup {"-"}

\* [\w\.-]
EmailChars == WordChars \cup {".", "-"}

IsWordAt(s, i) == i >= 1 /\ i <= Len(s) /\ s[i] \in WordChars

IsDigitAt(s, i) == i >= 1 /\ i <= Len(s) /\ s[i] \in Digits

\* \b between positions i - 1 and i
WordBoundary(s, i) == IsWordAt(s, i - 1) # IsWordAt(s, i)

\* Membership of a character in a character class of the patterns.
InClass(class, c) ==
    IF class = "\\S" THEN c \notin WhiteSpace
    ELSE IF class = "\\s" THEN c \in WhiteSpace
    ELSE IF class = "\\w" THEN c \in WordChars
    ELSE IF class = "[\\w\\.-]" THEN c \in EmailChars
    ELSE c \in TokenChars                      \* "[a-zA-Z0-9_-]"

\* The last position of the longest run of characters of the class that
\* starts at position i; i - 1 when the run is empty.
RunLast(s, i, class) ==
    SetMin({j \in i..(Len(s) + 1) : j = Len(s) + 1 \/ ~InClass(class, s[j])}) - 1

\* /NAMES[=:]\s*CLASS+/i at position i, with a leading \b when bounded:
\* the last position of the match, 0 for no match.  low is s in lower case.
KeywordEnd(s, low, i, rule) ==
    LET fits == {k \in 1..Len(rule.names) :
                    /\ MatchesAt(low, Chars(rule.names[k]), i)
                    /\ i + Len(rule.names[k]) <= Len(s)
                    /\ s[i + Len(rule.names[k])] \in {"=", ":"}}
    IN  IF fits = {} \/ (rule.bounded /\ ~WordBoundary(s, i)) THEN 0
        ELSE LET sep    == i + Len(rule.names[SetMin(fits)])
                 spaces == RunLast(s, sep + 1, "\\s")
                 value  == RunLast(s, spaces + 1, rule.class)
             IN  IF value > spaces THEN value ELSE 0

FourDigitsAt(s, i) == \A j \in 0..3 : IsDigitAt(s, i + j)

\* [-\s]? at position i: the position after it
AfterSeparator(s, i) ==
    IF i <= Len(s) /\ s[i] \in ({"-"} \cup WhiteSpace) THEN i + 1 ELSE i

\* /\b\d{4}[-\s]?\d{4}[-\s]?\d{4}[-\s]?\d{4}\b/ at position i
CardEnd(s, i) ==
    LET g2 == AfterSeparator(s, i + 4)
        g3 == AfterSeparator(s, g2 + 4)
        g4 == AfterSeparator(s, g3 + 4)
    IN  IF /\ WordBoundary(s, i)
           /\ FourDigitsAt(s, i) /\ FourDigitsAt(s, g2)
           /\ FourDigitsAt(s, g3) /\ FourDigitsAt(s, g4)
           /\ WordBoundary(s, g4 + 4)
        THEN g4 + 3 ELSE 0

\* /\b\d{3}-\d{2}-\d{4}\b/ at position i
SsnEnd(s, i) ==
    IF /\ WordBoundary(s, i)
       /\ \A j \in {0, 1, 2, 4, 5, 7, 8, 9, 10} : IsDigitAt(s, i + j)
       /\ MatchesAt(s, <<"-">>, i + 3)
       /\ MatchesAt(s, <<"-">>, i + 6)
       /\ WordBoundary(s, i + 11)
    THEN i + 10 ELSE 0

\* /\beyJ[A-Za-z0-9_-]+\.eyJ[A-Za-z0-9_-]+\.[A-Za-z0-9_-]+/ at position i
JwtEnd(s, i) ==
    LET first  == RunLast(s, i + 3, "[a-zA-Z0-9_-]")
        second == RunLast(s, first + 5, "[a-zA-Z0-9_-]")
        third  == RunLast(s, second + 2, "[a-zA-Z0-9_-]")
    IN  IF /\ WordBoundary(s, i)
           /\ MatchesAt(s, Chars("eyJ"), i)
           /\ first >= i + 3
           /\ MatchesAt(s, Chars(".eyJ"), first + 1)
           /\ second >= first + 5
           /\ MatchesAt(s, <<".">>, second + 1)
           /\ third >= second + 2
        THEN third ELSE 0

\* /\b[\w\.-]+@[\w\.-]+\.\w+\b/ at position i.  The greedy domain part
\* gives back characters until a "." followed by a word remains, so the
\* match ends with the word after the last such "." of the run.
EmailEnd(s, i) ==
    LET local  == RunLast(s, i, "[\\w\\.-]")
        domain == RunLast(s, local + 2, "[\\w\\.-]")
        dots   == {d \in (local + 3)..(domain - 1) : s[d] = "." /\ IsWordAt(s, d + 1)}
    IN  IF /\ WordBoundary(s, i)
           /\ local >= i
           /\ MatchesAt(s, <<"@">>, local + 1)
           /\ dots # {}
        THEN RunLast(s, SetMax(dots) + 1, "\\w") ELSE 0

Keyword(names, bounded, class) ==
    [kind |-> "keyword", names |-> names, bounded |-> bounded, class |-> class]

Pattern(kind) == [kind |-> kind, names |-> <<>>, bounded |-> TRUE, class |-> ""]

\* lines 297-319, in order
Rules ==
    << Keyword(<<"password">>, TRUE, "\\S"),
       Keyword(<<"passwd">>, TRUE, "\\S"),
       Keyword(<<"pwd">>, TRUE, "\\S"),
       Keyword(<<"api_key", "api-key", "apikey">>, TRUE, "\\S"),
       Keyword(<<"secret", "token", "auth">>, TRUE, "\\S"),
       Pattern("card"),
       Pattern("ssn"),
       Keyword(<<"session">>, FALSE, "[a-zA-Z0-9_-]"),
       Keyword(<<"token">>, FALSE, "[a-zA-Z0-9_-]"),
       Pattern("jwt"),
       Pattern("email") >>

MatchEnd(rule, s, low, i) ==
    IF rule.kind = "keyword" THEN KeywordEnd(s, low, i, rule)
    ELSE IF rule.kind = "card" THEN CardEnd(s, i)
    ELSE IF rule.kind = "ssn" THEN SsnEnd(s, i)
    ELSE IF rule.kind = "jwt" THEN JwtEnd(s, i)
    ELSE EmailEnd(s, i)

\* s.replace(pattern, '[REDACTED]') with a global pattern, from position
\* `from` on: matches are taken left to right and do not overlap.
RECURSIVE ReplaceFrom(_, _, _, _)
ReplaceFrom(rule, s, low, from) ==
    LET starts == {i \in from..Len(s) : MatchEnd(rule, s, low, i) # 0}
    IN  IF starts = {} THEN SubSeq(s, from, Len(s))
        ELSE LET i == SetMin(starts)
             IN  SubSeq(s, from, i - 1) \o Redacted
                     \o ReplaceFrom(rule, s, low, MatchEnd(rule, s, low, i) + 1)

ReplaceAll(rule, s) == ReplaceFrom(rule, s, toLowerCase(s), 1)

\* The first n replacements applied to text.
RECURSIVE Sanitized(_, _)
Sanitized(text, n) ==
    IF n = 0 THEN text ELSE ReplaceAll(Rules[n], Sanitized(text, n - 1))

sanitizeFragmentText(text) ==
    IF Falsy(text) THEN text                                       \* line 290
    ELSE Sanitized(text, Len(Rules))

(***************************************************************************)
(* SpecSanitize: both sanitizers on every string of up to MaxTextTokens    *)
(* tokens.                                                                 *)
(***************************************************************************)
MaxTextTokens == 4

TextTokens == { "token=", "Session:", "pwd=", "123-45-6789", "4111 1111-11111111",
                "a", " ", "eyJh.eyJi.k", "u@h.co", "?" }

InitSanitize ==
    /\ pc = "ready"
    /\ input \in TokenLists(TextTokens, MaxTextTokens)
    /\ output = Null
    /\ NoEffects

Sanitize ==
    /\ pc = "ready"
    /\ pc' = "done"
    /\ output' = [ fragment |-> sanitizeFragmentText(Flatten(input)),
                   referrer |-> sanitizeReferrerUrl(Flatten(input)) ]
    /\ UNCHANGED <<input, dispatched, lastEvent, requests>>

NextSanitize == Sanitize

SpecSanitize == InitSanitize /\ [][NextSanitize]_vars

\* C7 as claimed: each sanitizer applied to its own output changes
\* nothing.  Violated by sanitizeFragmentText: in "123-45-6789token=a" the
\* digits are followed by a letter, so the SSN pattern's closing \b fails;
\* the later pattern token[=:]..., which has no \b, then turns the text
\* into "123-45-6789[REDACTED]", where the SSN pattern matches on a second
\* pass.
C7_AsClaimed ==
    pc = "done" =>
        /\ sanitizeFragmentText(output.fragment) = output.fragment
        /\ sanitizeReferrerUrl(output.referrer) = output.referrer

\* The half of C7 that holds: sanitizeReferrerUrl on these strings.
ReferrerTextIdempotent ==
    pc = "done" => sanitizeReferrerUrl(output.referrer) = output.referrer

(***************************************************************************)
(* The page load.  The script body (lines 12-676) runs once, synchronously *)
(* (RunScript); the request it may issue is resolved later by the network  *)
(* (Accept, Reject, NetworkFail).                                          *)
(*                                                                         *)
(* input is the environment the script finds: the configured key,          *)
(* navigator.doNotTrack, the Performance API, window.location.hash,        *)
(* window.__preservedTextFragment, window.dispatchEvent/CustomEvent,       *)
(* window.sessionStorage and document.referrer.                            *)
(***************************************************************************)

\* lines 627-658 of init: the value of originalHash at line 661
OriginalHash(w) ==
    IF w.navigation = "throws"
    THEN IF Falsy(w.locationHash) THEN Null ELSE w.locationHash          \* line 657
    ELSE IF ~Qualifies(NavigationHash(w))
         THEN IF ~Falsy(w.locationHash) THEN w.locationHash              \* line 652
              ELSE IF ~Falsy(w.preserved) THEN w.preserved
              ELSE Null
         ELSE NavigationHash(w)

PageUrl == Chars("https://site.example/page")

\* window.location.href
Href(w) == PageUrl \o w.locationHash

\* lines 413-426
getTargetUrlWithFragment(w, originalHash) ==
    LET baseUrl == SplitOn(Href(w), "#")[1]
    IN  IF Qualifies(originalHash) THEN baseUrl \o originalHash ELSE Href(w)

\* line 454, with only '1' respected
DoNotTrackOnlyOne(w) == w.doNotTrack = Chars("1")

\* line 454
DoNotTrack(w) == w.doNotTrack = Chars("1") \/ w.doNotTrack = Chars("yes")

\* lines 460-481; the fields that only copy a value of the browser
\* (user_agent, viewport, language, timestamp) are left out.
Payload(w, fragment, originalHash) ==
    [ api_key         |-> w.apiKey,
      fragment_text   |-> sanitizeFragmentText(fragment),
      referrer_url    |-> sanitizeReferrerUrl(w.referrer),
      target_url      |-> getTargetUrlWithFragment(w, originalHash),
      traffic_source  |-> detectTrafficSource(w.referrer).source,
      ai_source       |-> detectTrafficSource(w.referrer).ai,
      fragment_source |-> "url_hash" ]

Hashes(strs) == {Chars(str) : str \in strs}

NavigationStates == {"throws", "none", "unparseable", "ok"}

NavigationHashes == Hashes({"", "#top", "#:~:text=x&text=y"})

LocationHashes == Hashes({"", "#top", "#:~:text=y,z", "#:~:text=%", "#:~:text=pwd=abc"})

PreservedFragments == {Null} \cup Hashes({"#old", "#:~:text=w%20v"})

ApiKeys == {Null, <<>>, Chars("key-1")}

DoNotTrackValues == {Null} \cup Hashes({"1", "yes", "0"})

DispatchStates == {"ok", "absent", "throws"}

StorageStates == {"ok", "throws"}

Referrers == Hashes({"", "https://chatgpt.com/c?id=7&q=1"})

Environments ==
    { w \in [ apiKey         : ApiKeys,
              doNotTrack     : DoNotTrackValues,
              navigation     : NavigationStates,
              navigationHash : NavigationHashes,
              locationHash   : LocationHashes,
              preserved      : PreservedFragments,
              dispatchEvent  : DispatchStates,
              sessionStorage : StorageStates,
              referrer       : Referrers ] :
        w.navigation # "ok" => w.navigationHash = <<>> }

Init ==
    /\ pc = "ready"
    /\ input \in Environments
    /\ output = Null
    /\ NoEffects

\* lines 620-625 with the catch removed
StorageOutcomeUncaught(w) == IF w.sessionStorage = "throws" THEN "raised" ELSE "read"

\* lines 620-625: window.sessionStorage.getItem inside try/catch.  The
\* outcome is "read" or "caught"; "raised" would be an exception that
\* leaves init.
StorageOutcome(w) == IF w.sessionStorage = "throws" THEN "caught" ELSE "read"

\* lines 12-676: the key check (36-40), init (610-672) and, inside it,
\* getTextFragment and sendTrackingEvent (452-588) up to the call of fetch.
\* output records what init computed and whether an exception left it.
RunScript ==
    /\ pc = "ready"
    /\ pc' = "loaded"
    /\ UNCHANGED input
    /\ IF Falsy(input.apiKey)
       THEN /\ output' = [fragment |-> Null, originalHash |-> Null, raised |-> FALSE]
            /\ UNCHANGED <<dispatched, lastEvent, requests>>
       ELSE IF StorageOutcome(input) = "raised"
       THEN /\ output' = [fragment |-> Null, originalHash |-> Null, raised |-> TRUE]
            /\ UNCHANGED <<dispatched, lastEvent, requests>>
       ELSE LET originalHash == OriginalHash(input)
                fragment     == getTextFragment(input)
                payload      == Payload(input, fragment, originalHash)
            IN  /\ output' = [fragment |-> fragment, originalHash |-> originalHash,
                              raised |-> FALSE]
                /\ IF Falsy(fragment) \/ DoNotTrack(input)
                   THEN UNCHANGED <<dispatched, lastEvent, requests>>
                   ELSE /\ IF input.dispatchEvent = "ok"
                           THEN /\ dispatched' = Append(dispatched, payload)
                                /\ lastEvent' = payload
                           ELSE UNCHANGED <<dispatched, lastEvent>>
                        /\ requests' = Append(requests, [payload |-> payload, status |-> "pending"])

Pending == {i \in 1..Len(requests) : requests[i].status = "pending"}

\* Resolved changed to send the payload again when the request was not
\* accepted.
ResolvedWithRetry(i, status) ==
    IF status = "accepted" THEN [requests EXCEPT ![i].status = status]
    ELSE Append([requests EXCEPT ![i].status = status],
                [payload |-> requests[i].payload, status |-> "pending"])

Resolved(i, status) == [requests EXCEPT ![i].status = status]

\* lines 521-531: the response is ok
Accept ==
    /\ pc = "loaded"
    /\ \E i \in Pending : requests' = Resolved(i, "accepted")
    /\ UNCHANGED <<pc, input, output, dispatched, lastEvent>>

\* lines 532-576: the response is an error
Reject ==
    /\ pc = "loaded"
    /\ \E i \in Pending : requests' = Resolved(i, "rejected")
    /\ UNCHANGED <<pc, input, output, dispatched, lastEvent>>

\* lines 578-586: fetch rejects
NetworkFail ==
    /\ pc = "loaded"
    /\ \E i \in Pending : requests' = Resolved(i, "failed")
    /\ UNCHANGED <<pc, input, output, dispatched, lastEvent>>

Next == RunScript \/ Accept \/ Reject \/ NetworkFail

Spec == Init /\ [][Next]_vars

\* The three sources of the locator, in its order.
Candidates(w) == <<NavigationHash(w), w.locationHash, w.preserved>>

QualifyingCandidates(w) == {i \in 1..3 : Qualifies(Candidates(w)[i])}

\* C1: the string that is parsed is the first of the three candidates, in
\* the order navigation entry, window.location.hash,
\* window.__preservedTextFragment, that is non-empty and contains
\* ":~:text="; the result is the parse of that string, and null when no
\* candidate qualifies.
C1_FirstQualifyingCandidate ==
    (pc # "ready" /\ ~Falsy(input.apiKey)) =>
        LET qualifying == QualifyingCandidates(input)
        IN  IF qualifying = {}
            THEN output.fragment = Null
            ELSE /\ LocateHash(input) = Candidates(input)[SetMin(qualifying)]
                 /\ output.fragment = ParseHash(Candidates(input)[SetMin(qualifying)])

\* C1 witness: the navigation entry and window.location.hash hold "#top",
\* the preserved fragment holds the directive, and its text is returned.
C1_Witness ==
    /\ pc = "loaded"
    /\ input.navigation = "ok"
    /\ input.navigationHash = Chars("#top")
    /\ input.locationHash = Chars("#top")
    /\ input.preserved = Chars("#:~:text=w%20v")
    /\ output.fragment = Chars("w v")

\* The payloads handed to the custom event and to fetch.
SentPayloads ==
    {dispatched[i] : i \in 1..Len(dispatched)}
        \cup {requests[i].payload : i \in 1..Len(requests)}

\* C9 as claimed: every payload's target_url is the page URL without its
\* fragment followed by the string the locator parsed, so it contains
\* ":~:text=".  Violated: init computes originalHash on its own (lines
\* 651-657), taking window.location.hash whenever it is non-empty and
\* never reading the preserved fragment after getEntries has thrown.
C9_AsClaimed ==
    \A payload \in SentPayloads :
        /\ payload.target_url = PageUrl \o LocateHash(input)
        /\ Contains(payload.target_url, Marker)

\* C10: an event is dispatched, window.__lastCitationTrackEvent is written
\* or a request is issued only if an API key is configured,
\* navigator.doNotTrack is neither '1' nor 'yes', and getTextFragment
\* returned a citation.
C10_Gated ==
    (dispatched # <<>> \/ lastEvent # Null \/ requests # <<>>) =>
        /\ ~Falsy(input.apiKey)
        /\ input.doNotTrack # Chars("1")
        /\ input.doNotTrack # Chars("yes")
        /\ getTextFragment(input) # Null

\* C10 witness: with a key, doNotTrack '0' and a directive in the hash, all
\* three effects have happened.
C10_Witness ==
    /\ pc = "loaded"
    /\ input.apiKey = Chars("key-1")
    /\ input.doNotTrack = Chars("0")
    /\ getTextFragment(input) = Chars("y...z")
    /\ Len(dispatched) = 1
    /\ lastEvent = dispatched[1]
    /\ Len(requests) = 1

\* C11 as claimed: whenever the event 'citationtrack:tracked' has been
\* dispatched, the request carrying its payload has been answered with a
\* 2xx response.  Violated: sendTrackingEvent dispatches the event (lines
\* 487-508) before it calls fetch (line 512), so the event is out while the
\* request is pending, and stays out when the request is rejected or fails.
C11_AsClaimed ==
    \A i \in 1..Len(dispatched) :
        \E j \in 1..Len(requests) :
            /\ requests[j].payload = dispatched[i]
            /\ requests[j].status = "accepted"

\* C12 as claimed: when a hash holds several segments, one of which does
\* not percent-decode while another does, the result is the display
\* strings of the segments that decode, joined in order.  Violated:
\* decodeURIComponent (line 139) is called inside the loop without a
\* try of its own, so the URIError reaches the catch of lines 198-201 and
\* getTextFragment returns null for the whole hash.
C12_AsClaimed ==
    (/\ pc = "done"
     /\ Len(Segments) >= 2
     /\ \E i \in 1..Len(Segments) : ~WellFormed(Segments[i])
     /\ \E i \in 1..Len(Segments) : WellFormed(Segments[i]))
        => /\ AsString(output) = Join(Displays(Segments), CommaSpace)
           /\ (Join(Displays(Segments), CommaSpace) # <<>> => output # Null)

\* What lines 146-160 leave of a decoded fragment once prefix and suffix
\* are stripped.
Remainder(decoded) ==
    LET p        == PrefixMatch(decoded)
        afterPre == IF p = 0 THEN decoded ELSE SubSeq(decoded, p + 3, Len(decoded))
        q        == SuffixMatch(afterPre)
    IN  IF q = 0 THEN afterPre ELSE SubSeq(afterPre, 1, q)

\* The commas of r that are not immediately followed by '-'.
SplittingCommas(r) == {i \in Commas(r) : ~MatchesAt(r, <<"-">>, i + 1)}

\* The display string of a remainder split as C13 describes: at the first
\* comma not followed by '-', everything before it being textStart and
\* everything after it textEnd, both trimmed.
SplitAtFirstFreeComma(r) ==
    IF SplittingCommas(r) = {} THEN Trim(r)
    ELSE LET c == SetMin(SplittingCommas(r))
         IN  Trim(Before(r, c)) \o Ellipsis \o Trim(After(r, c))

\* Both sides of the first comma not followed by '-' hold text.
SplitsIntoTexts(r) ==
    SplittingCommas(r) # {} =>
        LET c == SetMin(SplittingCommas(r))
        IN  Trim(Before(r, c)) # <<>> /\ Trim(After(r, c)) # <<>>

\* C13 as claimed: the remainder is split at the first comma that is not
\* immediately followed by '-', textEnd being everything after that comma;
\* without such a comma the whole remainder is textStart.  Violated:
\* split(',', 2) at line 165 keeps only the text between the first and the
\* second comma ('x,y,x' displays as 'x...y'), and only the first comma is
\* ever looked at, so 'x,-y,x' is not split at all.
C13_AsClaimed ==
    (pc = "done" /\ SplitsIntoTexts(Remainder(Value)))
        => AsString(output) = SplitAtFirstFreeComma(Remainder(Value))

\* The last position of the parameter value that starts at position from:
\* it runs up to the next "&", "#" or whitespace; from - 1 when it is empty.
ValueEnd(url, from) ==
    IF from > Len(url) THEN from - 1
    ELSE from + FirstOf(SubSeq(url, from, Len(url)), WhiteSpace \cup {"&", "#"}) - 2

\* Some query parameter of url with a listed name and a value stands in
\* out as it stood in url.
KeepsListedValue(url, out) ==
    \E i \in 1..Len(url), name \in C8_Listed :
        /\ url[i] \in {"?", "&"}
        /\ MatchesAt(url, name \o <<"=">>, i + 1)
        /\ ValueEnd(url, i + Len(name) + 2) >= i + Len(name) + 2
        /\ Contains(out, SubSeq(url, i, ValueEnd(url, i + Len(name) + 2)))

\* C14 as claimed: for a referrer that does not parse as a URL, no query
\* parameter whose name is on the list of the structured path keeps its
\* value in the output.  Violated: the fallback pattern of line 365 names
\* only token, session, key, auth, api_key, secret and password, so
\* "a.com/p?id=7" comes back unchanged.
C14_AsClaimed ==
    (pc = "done" /\ ~UrlParses(ReferrerUrl(input)))
        => ~KeepsListedValue(ReferrerUrl(input), output)

\* The part of C14 the code keeps: on a referrer that does not parse, the
\* parameters named by the fallback pattern lose their values.
FallbackRedacts ==
    (pc = "done" /\ ~UrlParses(ReferrerUrl(input))) =>
        \A i \in 1..Len(ReferrerUrl(input)) :
            FallbackEqualsAt(ReferrerUrl(input), i) # 0 =>
                ~Contains(output, SubSeq(ReferrerUrl(input), i,
                              ValueEnd(ReferrerUrl(input), FallbackEqualsAt(ReferrerUrl(input), i) + 1)))

\* C15: in every state of a page load there is at most one dispatched
\* event and at most one request, both carrying the same payload, also for
\* a hash with several segments and whatever the outcome of the request.
C15_AtMostOne ==
    /\ Len(dispatched) <= 1
    /\ Len(requests) <= 1
    /\ \A payload \in SentPayloads :
        /\ requests # <<>>
        /\ requests[1].payload = payload
        /\ payload.fragment_text = sanitizeFragmentText(getTextFragment(input))

\* C15 witness: a hash with two segments has produced one event and one
\* request, and the request has been rejected.
C15_Witness ==
    /\ pc = "loaded"
    /\ input.navigationHash = Chars("#:~:text=x&text=y")
    /\ Len(dispatched) = 1
    /\ dispatched[1].fragment_text = Chars("x, y")
    /\ Len(requests) = 1
    /\ requests[1].status = "rejected"

\* An environment in which a source of the locator is inaccessible.
SourceInaccessible(w) ==
    \/ w.navigation \in {"throws", "unparseable"}
    \/ w.sessionStorage = "throws"

\* The sources that remain when the navigation entry gives nothing.
LaterSources(w) == <<w.locationHash, w.preserved>>

\* C16: when performance.getEntries throws, the navigation entry does not
\* parse or sessionStorage throws, no exception leaves init; with the
\* navigation entry unusable the citation is the parse of
\* window.location.hash if that qualifies, else of the preserved fragment
\* if that qualifies; and a citation that is found is sent, unless
\* doNotTrack forbids it.
C16_FallsThrough ==
    (pc = "loaded" /\ ~Falsy(input.apiKey) /\ SourceInaccessible(input)) =>
        /\ ~output.raised
        /\ input.navigation \in {"throws", "unparseable"} =>
            LET later == {i \in 1..2 : Qualifies(LaterSources(input)[i])}
            IN  output.fragment = IF later = {} THEN Null
                                  ELSE ParseHash(LaterSources(input)[SetMin(later)])
        /\ (output.fragment # Null /\ ~DoNotTrack(input)) =>
            /\ Len(requests) = 1
            /\ requests[1].payload.fragment_text = sanitizeFragmentText(output.fragment)

\* C16 witness: getEntries and sessionStorage both throw, the hash of the
\* page has no directive, and the preserved fragment is detected and sent.
C16_Witness ==
    /\ pc = "loaded"
    /\ input.navigation = "throws"
    /\ input.sessionStorage = "throws"
    /\ input.locationHash = Chars("#top")
    /\ input.preserved = Chars("#:~:text=w%20v")
    /\ ~output.raised
    /\ Len(requests) = 1
    /\ requests[1].payload.fragment_text = Chars("w v")

\* The substrings of a fragment that a pattern of sanitizeFragmentText
\* matches.
SensitiveSpans(fragment) ==
    IF Falsy(fragment) THEN {}
    ELSE { SubSeq(fragment, i, MatchEnd(Rules[k], fragment, toLowerCase(fragment), i)) :
             <<k, i>> \in { ki \in (1..Len(Rules)) \X (1..Len(fragment)) :
                 MatchEnd(Rules[ki[1]], fragment, toLowerCase(fragment), ki[2]) # 0 } }

\* C17 as claimed: a substring of the detected fragment that
\* sanitizeFragmentText redacts occurs in no text field of a payload handed
\* to the custom event or to fetch.  Violated: target_url is the page URL
\* followed by the original hash (lines 415-419), which still holds the
\* text of the fragment; it is never passed through a sanitizer.  The
\* second half of the claim falls with it: fragments that differ inside a
\* redacted span give different target_url values.
C17_AsClaimed ==
    \A payload \in SentPayloads :
        \A span \in SensitiveSpans(getTextFragment(input)) :
            /\ ~Contains(payload.fragment_text, span)
            /\ ~Contains(payload.referrer_url, span)
            /\ ~Contains(payload.target_url, span)

\* The part of C17 the code keeps: fragment_text holds none of those
\* substrings.
FragmentTextRedacted ==
    \A payload \in SentPayloads :
        \A span \in SensitiveSpans(getTextFragment(input)) :
            ~Contains(payload.fragment_text, span)

=============================================================================
